---- MODULE Spec2Model ----
(***************************************************************************)
(* The voice-to-text extension (src/voice-to-text/index.ts) as a state     *)
(* machine.  One action is one turn of the JavaScript event loop: a host   *)
(* trigger, a timer, a child-process event or the completion of an         *)
(* awaited call, run until the handler next suspends at an `await`.        *)
(***************************************************************************)
EXTENDS Integers, Sequences, FiniteSets, Bags, TLC

\* ---------------------------------------------------------------- bounds
\* capture processes the extension may hold a reference to at once
MaxProcs == 2
\* startRecording invocations that may be suspended at an await at once
MaxPending == 2

\* ----------------------------------------------------------------- state
VARIABLES
    procs,            \* the child processes of index.ts:162 that something
                      \* still refers to, a bag of records; the one that
                      \* `recording` (index.ts:120) holds is marked active
    transcribing,     \* index.ts:121
    ffmpegAvailable,  \* index.ts:122  "null" | "true" | "false"
    preferredInput,   \* index.ts:123  TRUE once an input has been remembered
    preferredModel,   \* index.ts:124
    pendingExec,      \* startRecording calls suspended at index.ts:128
    pendingPrompt,    \* startRecording calls suspended at index.ts:145
    status,           \* ctx.ui.setStatus(STATUS_KEY, ...)
    installed,        \* environment: ffmpeg is on the PATH
    envInput,         \* environment: PI_VOICE_INPUT is set
    shutdown,         \* session_shutdown has been handled
    notes,            \* ctx.ui.notify calls made by the last step
    ev,               \* the last step: what ran, with or without a UI
    tf,               \* one call of transcribeFile (index.ts:62-117)
    cf,               \* the configuration file with one saveConfig and
                      \* loadConfig (index.ts:22-38)
    wf                \* one call of waitForFile (index.ts:48-60)

vars == <<procs, transcribing, ffmpegAvailable, preferredInput,
          preferredModel, pendingExec, pendingPrompt, status, installed,
          envInput, shutdown, notes, ev, tf, cf, wf>>

\* the exported functions followed on their own
calls == <<tf, cf, wf>>

\* the closure state of the extension, without the environment and history
ext == <<procs, transcribing, ffmpegAvailable, preferredInput,
         preferredModel, pendingExec, pendingPrompt, status>>

MODEL_OPTIONS == {"nvidia/parakeet-tdt-0.6b-v3", "openai/whisper-large-v3"}

\* a configuration: the model, or NoModel when the field is undefined
NoModel == "undefined"
Configs == MODEL_OPTIONS \cup {NoModel}

\* A child process.
\*   st     "running" | "failed" (spawn error) | "exited"
\*   how    how it ended: "none" | "zero" | "nonzero" | "signal" | "spawnerr"
\*   sig    SIGINT has been delivered to it by proc.kill
\*   grace  the 300 ms timer of index.ts:182 is pending
\*   stop   the stopRecording call that took it:
\*          "none" | "wait" | "waitFile" | "transcribe" | "done"
\*   active `recording.proc` is this process
\* the child as index.ts:162 returns it; a failed spawn sets a negative
\* exitCode and emits "error" (and no "exit") on the next tick
spawned(ok) ==
    [st |-> IF ok THEN "running" ELSE "failed",
     how |-> IF ok THEN "none" ELSE "spawnerr",
     sig |-> FALSE, grace |-> TRUE, stop |-> "none", active |-> TRUE]

Recs == BagToSet(procs)

\* index.ts:120  the session `recording` holds: none (null) or one
recording == {r \in Recs : r.active}

\* kind: the handler or callback that ran; who: the part its process played
Event(kind, who, hasUI) == [kind |-> kind, who |-> who, hasUI |-> hasUI]

TfIdle == [pc |-> "idle"]
CfIdle == [pc |-> "idle"]
WfIdle == [pc |-> "idle"]

Init ==
    /\ procs = EmptyBag
    /\ transcribing = FALSE
    /\ ffmpegAvailable = "null"
    /\ preferredInput = FALSE
    /\ preferredModel = "openai/whisper-large-v3"
    /\ pendingExec = 0
    /\ pendingPrompt = 0
    /\ status = ""
    /\ installed \in BOOLEAN
    /\ envInput \in BOOLEAN
    /\ shutdown = FALSE
    /\ notes = {}
    /\ ev = Event("init", "", TRUE)
    /\ tf = TfIdle
    /\ cf = CfIdle
    /\ wf = WfIdle

\* ------------------------------------------------- child process (Node)
\* proc.exitCode !== null: set by a normal exit and by a failed spawn (a
\* negative errno), null while running and after death by a signal.
exitCodeSet(r) == r.how \in {"zero", "nonzero", "spawnerr"}

\* typeof proc.exitCode === "number" && proc.exitCode !== 0
exitCodeNonZero(r) == r.how \in {"nonzero", "spawnerr"}

\* proc.kill("SIGINT") delivers the signal only to a live process.
kill(r) == IF r.st = "running" THEN [r EXCEPT !.sig = TRUE] ELSE r

\* index.ts:163-167  what readFileSync(logPath) can return: the stderr of
\* the process so far, appended chunk by chunk: no file ("none"), blanks
\* only ("blank") or text ("text").  A process that never started wrote
\* nothing.
LogReads(r) ==
    IF r.how = "spawnerr" THEN {"none"} ELSE {"none", "blank", "text"}

\* a spawned process that is still capturing and was never told to stop
Capturing(r) == r.st = "running" /\ ~r.sig

\* a stopRecording call is between the start of waitForFile and the return
\* of transcribeFile
InFlight(r) == r.stop \in {"waitFile", "transcribe"}

\* Nothing refers to a process any more: it has ended, it is not the active
\* session, its 300 ms timer has fired and no stopRecording call holds it.
\* Its record is dropped, as the garbage collector drops the object.
unreferenced(r) ==
    /\ ~r.active
    /\ r.st \in {"exited", "failed"}
    /\ ~r.grace
    /\ r.stop \in {"none", "done"}

One(r) == SetToBag({r})

\* the processes with r turned into r2
replaced(r, r2) ==
    IF unreferenced(r2) THEN procs (-) One(r)
    ELSE (procs (-) One(r)) (+) One(r2)

\* ------------------------------------------------------- startRecording
\* index.ts:137  if (recording || transcribing) return;
startRefused == recording # {} \/ transcribing

\* index.ts:141-150  the microphone prompt is shown (ctx.hasUI holds in
\* every call: both handlers return before it when there is no UI)
needsPrompt == ~envInput /\ ~preferredInput

\* spawn("ffmpeg", ...) cannot succeed when ffmpeg is not on the PATH, and
\* may fail for other reasons (EAGAIN, EACCES) when it is.
SpawnOutcomes == IF installed THEN BOOLEAN ELSE {FALSE}

\* index.ts:172  `recording = {...}` lets go of the session it held
released ==
    IF recording = {} THEN procs
    ELSE LET r == CHOOSE x \in recording : TRUE
         IN replaced(r, [r EXCEPT !.active = FALSE])

\* index.ts:157-201  spawn, remember the session, set the timer and the
\* exit listener; the "error" listener of index.ts:168 only notifies
spawnSession(ok, kind) ==
    /\ BagCardinality(released) < MaxProcs
    /\ procs' = released (+) One(spawned(ok))
    /\ preferredInput' = TRUE
    /\ status' = "recording"
    /\ notes' = {"recordingStarted"}
                 \cup (IF envInput THEN {} ELSE {"tip"})
                 \cup (IF ok THEN {} ELSE {"failedToStart"})
    /\ ev' = Event(kind, "spawned", TRUE)

\* index.ts:141-201  startRecording once ensureFfmpeg has answered true;
\* pe and pp are the suspended calls left if this one does not suspend
startFrom141(kind, pe, pp) ==
    /\ pendingExec' = pe
    /\ IF needsPrompt
       THEN /\ pe + pp < MaxPending
            /\ pendingPrompt' = pp + 1
            /\ notes' = {}
            /\ ev' = Event(kind, "", TRUE)
            /\ UNCHANGED <<procs, preferredInput, status>>
       ELSE /\ pendingPrompt' = pp
            /\ \E ok \in SpawnOutcomes : spawnSession(ok, kind)

\* index.ts:136-139  startRecording up to its first suspension
startRecording(kind) ==
    /\ UNCHANGED <<transcribing, ffmpegAvailable>>
    /\ IF startRefused \/ ffmpegAvailable = "false"
       THEN /\ notes' = {}
            /\ ev' = Event(kind, "", TRUE)
            /\ UNCHANGED <<procs, preferredInput, status, pendingExec,
                           pendingPrompt>>
       ELSE IF ffmpegAvailable = "null"
       THEN /\ pendingExec + pendingPrompt < MaxPending
            /\ pendingExec' = pendingExec + 1
            /\ notes' = {}
            /\ ev' = Event(kind, "", TRUE)
            /\ UNCHANGED <<procs, preferredInput, status, pendingPrompt>>
       ELSE startFrom141(kind, pendingExec, pendingPrompt)

\* index.ts:126-134  pi.exec("which", ["ffmpeg"]) returns to a suspended
\* startRecording, which goes on from index.ts:139 without another look at
\* `recording`
ExecDone ==
    /\ pendingExec > 0
    /\ ffmpegAvailable' = IF installed THEN "true" ELSE "false"
    /\ UNCHANGED <<transcribing, preferredModel, installed, envInput,
                   shutdown, calls>>
    /\ IF installed
       THEN startFrom141("execDone", pendingExec - 1, pendingPrompt)
       ELSE /\ pendingExec' = pendingExec - 1
            /\ notes' = {"ffmpegNotFound"}
            /\ ev' = Event("execDone", "", TRUE)
            /\ UNCHANGED <<procs, preferredInput, status, pendingPrompt>>

\* index.ts:145-201  ctx.ui.input returns to a suspended startRecording
PromptDone ==
    /\ pendingPrompt > 0
    /\ pendingPrompt' = pendingPrompt - 1
    /\ \E ok \in SpawnOutcomes : spawnSession(ok, "promptDone")
    /\ UNCHANGED <<transcribing, ffmpegAvailable, preferredModel, pendingExec,
                   installed, envInput, shutdown, calls>>

\* -------------------------------------------------------- stopRecording
\* index.ts:210-219  the log of a process that already failed is shown
stopNotes(r, log) ==
    IF exitCodeNonZero(r) /\ log = "text" THEN {"ffmpegError"} ELSE {}

\* index.ts:206-229  the session is taken out of `recording`, its process
\* is sent SIGINT and the call waits for the exit/timer race
taken(r) == [kill(r) EXCEPT !.stop = "wait", !.active = FALSE]

\* index.ts:204-229  stopRecording up to the await of the exit/timer race
stopRecording(kind) ==
    /\ UNCHANGED <<transcribing, ffmpegAvailable, preferredInput,
                   pendingExec, pendingPrompt>>
    /\ IF recording = {} \/ transcribing
       THEN /\ notes' = {}
            /\ ev' = Event(kind, "", TRUE)
            /\ UNCHANGED <<procs, status>>
       ELSE \E r \in recording :
            /\ procs' = replaced(r, taken(r))
            /\ status' = "processing"
            /\ \E log \in LogReads(r) : notes' = stopNotes(r, log)
            /\ ev' = Event(kind, "stopped", TRUE)

\* index.ts:231  what follows the race: the flag is raised and waitForFile
\* begins
afterRace(r) == [r EXCEPT !.stop = "waitFile"]

\* the wait of index.ts:226-229 without its timer
stopTimerArmed_NoTimer(r) == FALSE

\* index.ts:228  the 2000 ms timer is armed for as long as the call waits
stopTimerArmed(r) == r.stop = "wait"

\* index.ts:228  setTimeout(() => resolve(), 2000) fires first
StopTimer(r) ==
    /\ stopTimerArmed(r)
    /\ procs' = replaced(r, afterRace(r))
    /\ transcribing' = TRUE
    /\ notes' = {}
    /\ ev' = Event("stopTimer", "", TRUE)
    /\ UNCHANGED <<ffmpegAvailable, preferredInput, preferredModel,
                   pendingExec, pendingPrompt, status, installed, envInput,
                   shutdown, calls>>

\* index.ts:258-261  finally
finished(r) == [r EXCEPT !.stop = "done"]

\* a return at index.ts:247 that the finally does not see
leave_ReturnSkipsFinally(path) ==
    IF path = "fileTimeout"
    THEN [transcribing |-> TRUE, status |-> "processing"]
    ELSE [transcribing |-> FALSE, status |-> ""]

\* index.ts:258-261  the flag and the status indicator as the finally
\* leaves them, on the path of the return at 247 ("fileTimeout") and on
\* the paths through transcribeFile ("transcribeDone")
leave(path) == [transcribing |-> FALSE, status |-> ""]

\* index.ts:234  waitForFile returned true; transcribeFile is called.  The
\* file exists only if the process ran.
FileReady(r) ==
    /\ r.stop = "waitFile"
    /\ r.how # "spawnerr"
    /\ procs' = replaced(r, [r EXCEPT !.stop = "transcribe"])
    /\ notes' = {}
    /\ ev' = Event("fileReady", "", TRUE)
    /\ UNCHANGED <<transcribing, ffmpegAvailable, preferredInput,
                   preferredModel, pendingExec, pendingPrompt, status,
                   installed, envInput, shutdown, calls>>

\* a notification that never mentions the log
timeoutNotes_NoHint(log) == {"fileNotCreated"}

\* index.ts:236-246  the notification of a file that never appeared, with
\* the hint when the log read is not the empty string
timeoutNotes(log) ==
    {"fileNotCreated"} \cup (IF log # "none" THEN {"logHint"} ELSE {})

\* index.ts:235-248, 258-261  waitForFile returned false
FileTimeout(r) ==
    /\ r.stop = "waitFile"
    /\ procs' = replaced(r, finished(r))
    /\ transcribing' = leave("fileTimeout").transcribing
    /\ status' = leave("fileTimeout").status
    /\ \E log \in LogReads(r) :
          /\ notes' = timeoutNotes(log)
          /\ ev' = Event("fileTimeout", log, TRUE)
    /\ UNCHANGED <<ffmpegAvailable, preferredInput, preferredModel,
                   pendingExec, pendingPrompt, installed, envInput, shutdown,
                   calls>>

\* index.ts:71, 74, 89, 99  what transcribeFile throws: the credential
\* is missing, the file cannot be read, the transport fails, the status is
\* not a success
TfErrors == {"noKey", "unreadable", "transport", "http"}

\* index.ts:249-250  what the await of transcribeFile gives: text, nothing
\* but blanks, or one of the errors
TfOutcomes == {"text", "empty"} \cup TfErrors

\* a catch that handles the HTTP error alone; the others leave the handler
transcribeNotes_HttpOnly(out) ==
    CASE out = "text" -> {"loaded"}
      [] out = "empty" -> {"transcriptionEmpty"}
      [] out = "http" -> {"transcriptionFailed"}
      [] OTHER -> {"rejected"}

\* index.ts:249-257  the notification after transcribeFile; the catch of
\* line 256 takes whatever was thrown, so that the handler's promise is
\* never rejected
transcribeNotes(out) ==
    CASE out = "text" -> {"loaded"}
      [] out = "empty" -> {"transcriptionEmpty"}
      [] OTHER -> {"transcriptionFailed"}

\* index.ts:249-261  transcribeFile has returned or thrown
TranscribeDone(r, out) ==
    /\ r.stop = "transcribe"
    /\ procs' = replaced(r, finished(r))
    /\ transcribing' = leave("transcribeDone").transcribing
    /\ status' = leave("transcribeDone").status
    /\ notes' = transcribeNotes(out)
    /\ ev' = Event("transcribeDone", out, TRUE)
    /\ UNCHANGED <<ffmpegAvailable, preferredInput, preferredModel,
                   pendingExec, pendingPrompt, installed, envInput, shutdown,
                   calls>>

\* ------------------------------------------------------------- handlers
\* both handlers telling a context without a UI why they return
noUiNotes_Always(kind) == {"voice requires interactive mode"}

\* index.ts:268 and index.ts:280-283  what a handler tells a context
\* without a UI before it returns
noUiNotes(kind) ==
    IF kind = "shortcut" THEN {} ELSE {"voice requires interactive mode"}

\* index.ts:269-273 and index.ts:305-309  the toggle
toggle(kind) ==
    IF recording # {} THEN stopRecording(kind) ELSE startRecording(kind)

\* index.ts:265-275 the shortcut, index.ts:277-311 the /voice command with
\* no argument
Toggle(kind, hasUI) ==
    /\ ~shutdown
    /\ UNCHANGED <<preferredModel, installed, envInput, shutdown, calls>>
    /\ IF hasUI
       THEN toggle(kind)
       ELSE /\ notes' = noUiNotes(kind)
            /\ ev' = Event(kind, "", FALSE)
            /\ UNCHANGED <<procs, transcribing, ffmpegAvailable,
                           preferredInput, pendingExec, pendingPrompt, status>>

\* index.ts:286-303  /voice model; sel is what ctx.ui.select returned with
\* its bullet stripped ("" when the dialog was dismissed)
ModelCommand(hasUI, sel) ==
    /\ ~shutdown
    /\ ev' = Event("modelCommand", "", hasUI)
    /\ preferredModel' =
           IF hasUI /\ sel \in MODEL_OPTIONS THEN sel ELSE preferredModel
    /\ notes' = IF ~hasUI THEN noUiNotes("command")
                ELSE IF sel = "" THEN {}
                ELSE IF sel \in MODEL_OPTIONS THEN {"modelSet"}
                ELSE {"invalidModel"}
    /\ UNCHANGED <<procs, transcribing, ffmpegAvailable, preferredInput,
                   pendingExec, pendingPrompt, status, installed, envInput,
                   shutdown, calls>>

\* index.ts:323-327  session_shutdown: the active session's process, and no
\* other, is sent SIGINT
Shutdown ==
    /\ ~shutdown
    /\ shutdown' = TRUE
    /\ procs' = IF recording = {} THEN procs
                ELSE LET r == CHOOSE x \in recording : TRUE
                     IN replaced(r, kill(r))
    /\ notes' = {}
    /\ ev' = Event("shutdown", "", TRUE)
    /\ UNCHANGED <<transcribing, ffmpegAvailable, preferredInput,
                   preferredModel, pendingExec, pendingPrompt, status,
                   installed, envInput, calls>>

\* ------------------------------------------------- child-process events
\* an exit listener that clears the session whatever process has ended
exitClears_AnyProcess(r) == TRUE

\* index.ts:197  recording?.proc === proc: the exit listener of
\* startRecording clears the session of its own process only
exitClears(r) == r.active

\* index.ts:198  recording = null in a bag of processes
nullRecording(b) ==
    LET act == {x \in BagToSet(b) : x.active}
    IN  IF act = {} THEN b
        ELSE LET a == CHOOSE x \in act : TRUE
             IN  (b (-) One(a)) (+) One([a EXCEPT !.active = FALSE])

\* a bag of processes without those nothing refers to
collect(b) == [x \in {y \in BagToSet(b) : ~unreferenced(y)} |-> b[x]]

\* the processes with r turned into r2 and the session cleared
cleared(r, r2) == collect(nullRecording((procs (-) One(r)) (+) One(r2)))

\* the part a process plays when it ends
role(r) ==
    IF r.active THEN "active" ELSE IF r.stop = "none" THEN "orphan"
    ELSE IF r.stop = "wait" THEN "stopping" ELSE "stopped"

\* The process ends (with a code, or killed by a signal), or "exit" follows
\* the "error" of a failed spawn, which Node allows.  The listeners run:
\* index.ts:195-201, then index.ts:227 if a stopRecording call is waiting.
ProcExit(r, how) ==
    /\ \/ r.st = "running" /\ how \in {"zero", "nonzero", "signal"}
       \/ r.st = "failed" /\ how = "spawnerr"
    /\ LET waiting == r.stop = "wait"
           ended == [r EXCEPT !.st = "exited", !.how = how]
           moved == IF waiting THEN afterRace(ended) ELSE ended
       IN /\ procs' = IF exitClears(r) THEN cleared(r, moved)
                      ELSE replaced(r, moved)
          /\ transcribing' = (transcribing \/ waiting)
    /\ status' = IF exitClears(r) THEN "" ELSE status
    /\ notes' = {}
    /\ ev' = Event("exit", role(r), TRUE)
    /\ UNCHANGED <<ffmpegAvailable, preferredInput, preferredModel,
                   pendingExec, pendingPrompt, installed, envInput, shutdown,
                   calls>>

\* index.ts:182-193  the 300 ms timer
graceNotes(r, log) ==
    IF exitCodeSet(r)
    THEN IF log = "text" THEN {"exitedEarlyLog"} ELSE {"exitedEarlyHint"}
    ELSE {}

GraceTimer(r) ==
    /\ r.grace
    /\ procs' = replaced(r, [r EXCEPT !.grace = FALSE])
    /\ \E log \in LogReads(r) : notes' = graceNotes(r, log)
    /\ ev' = Event("graceTimer", IF r.st = "exited" THEN r.how ELSE "", TRUE)
    /\ UNCHANGED <<transcribing, ffmpegAvailable, preferredInput,
                   preferredModel, pendingExec, pendingPrompt, status,
                   installed, envInput, shutdown, calls>>

\* ----------------------------------------------------------- environment
\* index.ts:313-321  session_start: the stored model, when loadConfig
\* returns one, becomes the preferred model
SessionStart(hasUI, config) ==
    /\ ~shutdown
    /\ preferredModel' = IF config # NoModel THEN config ELSE preferredModel
    /\ notes' = IF config # NoModel /\ hasUI THEN {"voiceModel"} ELSE {}
    /\ ev' = Event("sessionStart", "", hasUI)
    /\ UNCHANGED <<procs, transcribing, ffmpegAvailable, preferredInput,
                   pendingExec, pendingPrompt, status, installed, envInput,
                   shutdown, calls>>

\* ffmpeg is installed while the extension runs
Install ==
    /\ ~installed
    /\ installed' = TRUE
    /\ notes' = {}
    /\ ev' = Event("install", "", TRUE)
    /\ UNCHANGED <<ext, envInput, shutdown, calls>>

Kinds == {"shortcut", "command"}

\* the recording lifecycle: every handler, callback and timer but the model
\* selection
Recording ==
    \/ \E k \in Kinds, ui \in BOOLEAN : Toggle(k, ui)
    \/ ExecDone
    \/ PromptDone
    \/ \E r \in Recs : StopTimer(r)
    \/ \E r \in Recs : FileReady(r)
    \/ \E r \in Recs : FileTimeout(r)
    \/ \E r \in Recs, out \in TfOutcomes : TranscribeDone(r, out)
    \/ \E r \in Recs, how \in {"zero", "nonzero", "signal", "spawnerr"} :
           ProcExit(r, how)
    \/ \E r \in Recs : GraceTimer(r)
    \/ Shutdown
    \/ Install

Next ==
    \/ Recording
    \/ \E ui \in BOOLEAN, sel \in MODEL_OPTIONS \cup {"", "other"} :
           ModelCommand(ui, sel)
    \/ \E ui \in BOOLEAN, config \in Configs : SessionStart(ui, config)

\* the whole extension
Spec == Init /\ [][Next]_vars

\* The extension with the model preference left alone.  ModelCommand writes
\* preferredModel only, which no other action reads, so it is left out
\* where the claim is about recording.
SpecRecording == Init /\ [][Recording]_vars

\* A timer set with setTimeout fires.
FairRecording == SpecRecording /\ WF_vars(\E r \in Recs : StopTimer(r))

\* index.ts:234, 249  waitForFile returns, and so does transcribeFile
FairPostProcessing ==
    /\ SpecRecording
    /\ WF_vars(\E r \in Recs : FileReady(r) \/ FileTimeout(r))
    /\ WF_vars(\E r \in Recs, out \in TfOutcomes : TranscribeDone(r, out))

\* ------------------------------------------------------- transcribeFile
\* index.ts:62-117, one call followed step by step in `tf`.  A string is a
\* sequence of characters; an optional string is a record whose `set` field
\* tells undefined from a value.

MaxKeyLen == 2     \* characters in a credential

WhiteSpace == {" ", "\t"}
Chars == WhiteSpace \cup {"k"}
Strs == UNION {[1..n -> Chars] : n \in 0..MaxKeyLen}
Undefined == [set |-> FALSE, val |-> <<>>]
Opt == {Undefined} \cup {[set |-> TRUE, val |-> s] : s \in Strs}

\* String.prototype.trim (index.ts:70): whitespace off both ends
RECURSIVE trimStart(_)
trimStart(s) ==
    IF s # <<>> /\ Head(s) \in WhiteSpace THEN trimStart(Tail(s)) ELSE s

RECURSIVE trimEnd(_)
trimEnd(s) ==
    IF s # <<>> /\ s[Len(s)] \in WhiteSpace
    THEN trimEnd(SubSeq(s, 1, Len(s) - 1)) ELSE s

trim(s) == trimEnd(trimStart(s))

\* index.ts:69: `apiKey = process.env.VENICE_API_KEY`, the default taken
\* only when the parameter is undefined
apiKey(t) == IF t.apiKey.set THEN t.apiKey ELSE t.envKey

\* the test of index.ts:70 without the trim
credentialMissing_NoTrim(k) == ~k.set \/ k.val = <<>>

\* index.ts:70: !apiKey || apiKey.trim() === ""
credentialMissing(k) == ~k.set \/ k.val = <<>> \/ trim(k.val) = <<>>

ErrNoKey == <<"VENICE_API_KEY is not set">>

\* A response body: the text as received (`raw`), what JSON.parse makes of
\* it (`parse`), the type of the parsed object's two fields, and whether
\* JSON.stringify of the parsed value gives the received text back
\* (`canonical`: no white space, no escapes written another way).
FieldTypes == {"absent", "string", "other"}
Bodies ==
    {[parse |-> "invalid", text |-> "absent", transcription |-> "absent",
      canonical |-> FALSE]}
    \cup [parse : {"null", "scalar", "array"}, text : {"absent"},
          transcription : {"absent"}, canonical : BOOLEAN]
    \cup [parse : {"object"}, text : FieldTypes, transcription : FieldTypes,
          canonical : BOOLEAN]

\* index.ts:102  res.headers.get("content-type"), null when not sent
ContentTypes ==
    {"application/json", "application/json; charset=utf-8", "text/plain",
     "null"}

\* index.ts:97  res.ok is true for the statuses 200..299
Responses ==
    {res \in [ok : BOOLEAN, status : {"200", "401"},
              statusText : {"OK", "Unauthorized", ""},
              ctype : ContentTypes, body : Bodies] :
        res.ok = (res.status = "200")}

NoResponse ==
    [ok |-> FALSE, status |-> "", statusText |-> "", ctype |-> "null",
     body |-> CHOOSE b \in Bodies : b.parse = "invalid"]

TfStart ==
    [pc : {"start"}, apiKey : Opt, envKey : Opt, fileOk : BOOLEAN,
     reads : {0}, fetches : {0}, out : {<<>>}, res : {NoResponse}]

InitTf ==
    /\ procs = EmptyBag
    /\ transcribing = FALSE
    /\ ffmpegAvailable = "null"
    /\ preferredInput = FALSE
    /\ preferredModel = "openai/whisper-large-v3"
    /\ pendingExec = 0
    /\ pendingPrompt = 0
    /\ status = ""
    /\ installed = TRUE
    /\ envInput = FALSE
    /\ shutdown = FALSE
    /\ notes = {}
    /\ ev = Event("init", "", TRUE)
    /\ tf \in TfStart
    /\ cf = CfIdle
    /\ wf = WfIdle

TfStep(t) ==
    /\ tf' = t
    /\ UNCHANGED <<ext, installed, envInput, shutdown, notes, ev, cf, wf>>

\* index.ts:69-72
TfCheckKey ==
    /\ tf.pc = "start"
    /\ TfStep(IF credentialMissing(apiKey(tf))
              THEN [tf EXCEPT !.pc = "threw", !.out = ErrNoKey]
              ELSE [tf EXCEPT !.pc = "read"])

\* index.ts:74: readFileSync throws when the file cannot be read
TfReadFile ==
    /\ tf.pc = "read"
    /\ TfStep(IF tf.fileOk
              THEN [tf EXCEPT !.pc = "fetch", !.reads = @ + 1]
              ELSE [tf EXCEPT !.pc = "threw", !.reads = @ + 1,
                              !.out = <<"ENOENT">>])

\* index.ts:76-96: the form is built and the transport invoked
TfFetch ==
    /\ tf.pc = "fetch"
    /\ TfStep([tf EXCEPT !.pc = "response", !.fetches = @ + 1])

\* the strings transcribeFile can return, as terms over the response
Raw == <<"body">>
Field(name) == <<"data", name>>

\* JSON.stringify(JSON.parse(body)): the received text when it is canonical
stringify(body) == IF body.canonical THEN Raw ELSE <<"JSON.stringify(data)">>

\* index.ts:102,104  (get("content-type") || "").includes("application/json")
includesJson(ctype) ==
    ctype \in {"application/json", "application/json; charset=utf-8"}

\* index.ts:106  JSON.parse(body) throws
parseThrows(body) == body.parse = "invalid"

\* index.ts:107  `data.text` throws a TypeError when data is null
readThrows(body) == body.parse = "null"

\* index.ts:105-113  the try block and its catch
fromJson(body) ==
    IF parseThrows(body) \/ readThrows(body) THEN Raw
    ELSE IF body.text = "string" THEN Field("text")
    ELSE IF body.transcription = "string" THEN Field("transcription")
    ELSE stringify(body)

\* index.ts:97-116
handleResponse(res) ==
    IF ~res.ok
    THEN [pc |-> "threw",
          out |-> <<res.status, " ", res.statusText, ": ", "body">>]
    ELSE [pc |-> "returned",
          out |-> IF includesJson(res.ctype) THEN fromJson(res.body) ELSE Raw]

TfResponse(res) ==
    /\ tf.pc = "response"
    /\ LET h == handleResponse(res)
       IN  TfStep([tf EXCEPT !.pc = h.pc, !.out = h.out, !.res = res])

\* index.ts:89  the transport rejects: the await throws its error
TfTransportError ==
    /\ tf.pc = "response"
    /\ TfStep([tf EXCEPT !.pc = "threw", !.out = <<"fetch failed">>])

NextTf ==
    \/ TfCheckKey
    \/ TfReadFile
    \/ TfFetch
    \/ \E res \in Responses : TfResponse(res)
    \/ TfTransportError

SpecTf == InitTf /\ [][NextTf]_vars

\* ------------------------------------------------- loadConfig, saveConfig
\* index.ts:22-38.  A text is a sequence of JSON tokens; white space is a
\* token of its own, so that pretty-printed and compact texts differ.

Tok(t, v) == [t |-> t, v |-> v]
LBrace == Tok("punct", "{")
RBrace == Tok("punct", "}")
LBrack == Tok("punct", "[")
RBrack == Tok("punct", "]")
Colon == Tok("punct", ":")
Comma == Tok("punct", ",")
Ws == Tok("ws", " ")
Str(v) == Tok("str", v)
Num(v) == Tok("num", v)
Lit(v) == Tok("lit", v)
NoTok == Tok("none", "")

\* index.ts:36  JSON.stringify(config, null, 2)
stringify2(config) ==
    IF config = NoModel THEN <<LBrace, RBrace>>
    ELSE <<LBrace, Ws, Str("model"), Colon, Ws, Str(config), Ws, RBrace>>

\* JSON.stringify(config), as the tests and other writers produce it
compact(v) == <<LBrace, Str("model"), Colon, v, RBrace>>

\* the texts the configuration file may hold
Texts ==
    {stringify2(c) : c \in Configs}
    \cup {compact(Str(m)) : m \in MODEL_OPTIONS \cup {"bogus", ""}}
    \cup {compact(Num("1")), compact(Lit("null")), compact(LBrace)}
    \cup {<<LBrace, Str("model"), Colon, Str("openai/whisper-large-v3"),
            Comma, Str("theme"), Colon, Str("dark"), RBrace>>,
          <<LBrace, Str("theme"), Colon, Str("nvidia/parakeet-tdt-0.6b-v3"),
            RBrace>>,
          <<LBrace, Str("model"), Colon, Str("bogus"), Comma, Str("model"),
            Colon, Str("nvidia/parakeet-tdt-0.6b-v3"), RBrace>>,
          <<Lit("null")>>, <<Str("openai/whisper-large-v3")>>,
          <<LBrack, RBrack>>, <<Ws>>, <<>>, <<LBrace>>}

\* a parser that does not skip white space
stripWs_Keep(s) == s

\* white space between the tokens means nothing to JSON.parse
RECURSIVE stripWs(_)
stripWs(s) ==
    IF s = <<>> THEN <<>>
    ELSE IF Head(s) = Ws THEN stripWs(Tail(s))
    ELSE <<Head(s)>> \o stripWs(Tail(s))

Thrown == [ok |-> FALSE, kind |-> "", model |-> NoTok]
Value(kind, model) == [ok |-> TRUE, kind |-> kind, model |-> model]

\* the members of an object, the last `model` member winning
RECURSIVE parseMembers(_, _)
parseMembers(s, model) ==
    IF Len(s) < 3 \/ s[1].t # "str" \/ s[2] # Colon
          \/ s[3].t \notin {"str", "num", "lit"}
    THEN Thrown
    ELSE LET m == IF s[1].v = "model" THEN s[3] ELSE model
         IN  IF Len(s) = 3 THEN Value("object", m)
             ELSE IF s[4] = Comma
             THEN parseMembers(SubSeq(s, 5, Len(s)), m)
             ELSE Thrown

\* index.ts:26  JSON.parse(raw)
JSONparse(raw) ==
    LET s == stripWs(raw)
    IN  IF s = <<>> THEN Thrown
        ELSE IF Len(s) = 1
        THEN IF s[1].t = "lit" /\ s[1].v = "null" THEN Value("null", NoTok)
             ELSE IF s[1].t \in {"str", "num", "lit"}
             THEN Value("scalar", NoTok)
             ELSE Thrown
        ELSE IF s = <<LBrack, RBrack>> THEN Value("array", NoTok)
        ELSE IF s = <<LBrace, RBrace>> THEN Value("object", NoTok)
        ELSE IF s[1] = LBrace /\ s[Len(s)] = RBrace
        THEN parseMembers(SubSeq(s, 2, Len(s) - 1), NoTok)
        ELSE Thrown

\* the file system at the configuration path: nothing, a file or a
\* directory; `readable` and `writable` are what the permissions allow
FileStates ==
    [kind : {"missing"}, text : {<<>>}, readable : {TRUE},
     writable : BOOLEAN]
    \cup [kind : {"dir"}, text : {<<>>}, readable : {FALSE},
          writable : {FALSE}]
    \cup [kind : {"file"}, text : Texts, readable : BOOLEAN,
          writable : BOOLEAN]

\* a JavaScript value that counts as true in `a && b`
truthy(tok) ==
    CASE tok.t = "str" -> tok.v # ""
      [] tok.t = "num" -> tok.v # "0"
      [] tok.t = "lit" -> tok.v = "true"
      [] OTHER -> FALSE

\* any non-empty string taken for a model
accepted_AnyString(parsed) == truthy(parsed.model) /\ parsed.model.t = "str"

\* index.ts:27  parsed?.model && MODEL_OPTIONS.includes(parsed.model)
accepted(parsed) ==
    /\ truthy(parsed.model)
    /\ parsed.model.t = "str" /\ parsed.model.v \in MODEL_OPTIONS

\* index.ts:22-32  loadConfig; every throw inside the try ends at line 31
loadConfig(file) ==
    IF file.kind = "missing" THEN NoModel
    ELSE IF ~file.readable THEN NoModel
    ELSE LET parsed == JSONparse(file.text)
         IN  IF ~parsed.ok THEN NoModel
             ELSE IF accepted(parsed) THEN parsed.model.v
             ELSE NoModel

\* index.ts:34-38  saveConfig; a failed write is swallowed
saveConfig(config, file) ==
    IF file.writable
    THEN [file EXCEPT !.kind = "file", !.text = stringify2(config)]
    ELSE file

CfStart ==
    [pc : {"start"}, file : FileStates, config : {NoModel}, wrote : {FALSE},
     result : {NoModel}]

Quiet ==
    /\ procs = EmptyBag
    /\ transcribing = FALSE
    /\ ffmpegAvailable = "null"
    /\ preferredInput = FALSE
    /\ preferredModel = "openai/whisper-large-v3"
    /\ pendingExec = 0
    /\ pendingPrompt = 0
    /\ status = ""
    /\ installed = TRUE
    /\ envInput = FALSE
    /\ shutdown = FALSE
    /\ notes = {}
    /\ ev = Event("init", "", TRUE)

InitCf == Quiet /\ tf = TfIdle /\ wf = WfIdle /\ cf \in CfStart

CfStep(c) ==
    /\ cf' = c
    /\ UNCHANGED <<ext, installed, envInput, shutdown, notes, ev, tf, wf>>

SaveConfig(config) ==
    /\ cf.pc = "start"
    /\ CfStep([cf EXCEPT !.pc = "saved", !.config = config,
                         !.wrote = cf.file.writable,
                         !.file = saveConfig(config, cf.file)])

LoadConfig ==
    /\ cf.pc \in {"start", "saved"}
    /\ CfStep([cf EXCEPT !.pc = IF cf.pc = "saved" THEN "reloaded"
                                ELSE "loaded",
                         !.result = loadConfig(cf.file)])

NextCf ==
    \/ \E config \in Configs : SaveConfig(config)
    \/ LoadConfig

SpecCf == InitCf /\ [][NextCf]_vars

\* ------------------------------------------------------------ waitForFile
\* index.ts:48-60.  Times are in milliseconds; `elapsed` is
\* Date.now() - start.

Interval == 100     \* index.ts:57  the sleep between two polls
Tick == 50          \* granularity of the times considered
MaxTimeout == 250   \* largest timeoutMs
MaxLate == 50       \* how late a timer may fire

Timeouts == {k * Tick : k \in 0..(MaxTimeout \div Tick)}
Lates == {k * Tick : k \in 0..(MaxLate \div Tick)}

\* what a poll finds at the path: nothing, an empty file, a file with
\* content, or a file that is gone when statSync looks (statSync throws)
Polls == {"missing", "empty", "ready", "statThrows"}

\* a loop that gives up when the next sleep would pass the timeout
expired_BeforeSleep(elapsed, timeoutMs) == ~(elapsed + Interval < timeoutMs)

\* index.ts:50  the loop condition fails
expired(elapsed, timeoutMs) == ~(elapsed < timeoutMs)

\* index.ts:51-56  existsSync, and statSync inside its try
found(poll) ==
    LET exists == poll # "missing"
        statThrew == poll = "statThrows"
        size == IF poll = "ready" THEN 1 ELSE 0
    IN  exists /\ ~statThrew /\ size > 0

WfStart ==
    [pc : {"loop"}, timeoutMs : Timeouts, elapsed : {0}, polls : {0},
     last : {"none"}, lastAt : {0}]

InitWf == Quiet /\ tf = TfIdle /\ cf = CfIdle /\ wf \in WfStart

WfStep(w) ==
    /\ wf' = w
    /\ UNCHANGED <<ext, installed, envInput, shutdown, notes, ev, tf, cf>>

\* index.ts:50-57  the loop condition and one poll, up to the await
WfPoll(poll) ==
    /\ wf.pc = "loop"
    /\ ~expired(wf.elapsed, wf.timeoutMs)
    /\ WfStep([wf EXCEPT !.pc = IF found(poll) THEN "true" ELSE "sleep",
                         !.polls = @ + 1, !.last = poll,
                         !.lastAt = wf.elapsed])

\* index.ts:50,59  the loop ends, false is returned
WfGiveUp ==
    /\ wf.pc = "loop"
    /\ expired(wf.elapsed, wf.timeoutMs)
    /\ WfStep([wf EXCEPT !.pc = "false"])

\* index.ts:57  the timer fires, after Interval or later
WfWake(late) ==
    /\ wf.pc = "sleep"
    /\ WfStep([wf EXCEPT !.pc = "loop", !.elapsed = @ + Interval + late])

NextWf ==
    \/ \E poll \in Polls : WfPoll(poll)
    \/ WfGiveUp
    \/ \E late \in Lates : WfWake(late)

SpecWf == InitWf /\ [][NextWf]_vars

\* the timer of index.ts:57 fires and the continuation runs
FairWf == SpecWf /\ WF_vars(NextWf)

\* ================================================================ claims
\* how many of the processes satisfy P
Count(P(_)) == BagCardinality([r \in {x \in Recs : P(x)} |-> procs[r]])

IsToggle(e) == e.kind \in Kinds /\ e.hasUI

\* every process started: no spawn has failed
AllStarted == \A r \in Recs : r.how # "spawnerr"

\* C1: in every reachable state at most one spawned capture process is
\* still capturing, that is, has neither exited nor been sent SIGINT.
C1_AtMostOneCapturing == Count(Capturing) <= 1

\* C2: a toggle trigger that arrives while a stopRecording call is between
\* the start of its file-ready wait and the return of transcribeFile is
\* ignored: it spawns nothing, stops nothing, leaves the session and the
\* flag alone and leaves no call suspended.  Stated for triggers before and
\* after which every process has started.
C2_ToggleIgnoredWhileInFlight ==
    [][(IsToggle(ev') /\ AllStarted /\ AllStarted'
           /\ \E r \in Recs : InFlight(r))
          => UNCHANGED <<procs, transcribing, pendingExec, pendingPrompt>>]_vars

\* C3: a toggle trigger that arrives after a stop was requested and before
\* the process has exited or the 2000 ms timer has fired starts no new
\* recording.  Stated for triggers before and after which every process
\* has started.
C3_NoStartWhileStopping ==
    [][(IsToggle(ev') /\ AllStarted /\ AllStarted'
           /\ \E r \in Recs : r.stop = "wait")
          => ev'.who # "spawned"]_vars

\* C4: the toggle trigger that follows the exit of the active session's
\* process, when no stop was requested, starts a new recording.  Stated
\* for exits after which every process has started.
C4_StartAfterUnexpectedExit ==
    [][(ev.kind = "exit" /\ ev.who = "active" /\ AllStarted /\ IsToggle(ev'))
          => ev'.who = "spawned"]_vars

\* C5: once a spawn has failed the recording state is idle again, so that
\* the next toggle trigger starts a recording and stops nothing.
C5_FailedSpawnResets ==
    [][(IsToggle(ev') /\ \E r \in recording : r.st = "failed")
          => ev'.who = "spawned"]_vars

\* C6: after a start was abandoned because ffmpeg was not found, a toggle
\* trigger made when ffmpeg is installed starts a recording (or asks for the
\* microphone), and one made when it is not tells the user so.
C6_RetryAfterNotFound ==
    [][(IsToggle(ev') /\ ffmpegAvailable = "false" /\ ~startRefused)
          => IF installed
             THEN ev'.who = "spawned" \/ pendingPrompt' = pendingPrompt + 1
             ELSE "ffmpegNotFound" \in notes']_vars

\* C7: when the 300 ms timer fires for a process that has exited, however
\* it exited, an error notification is surfaced.
C7_EarlyExitNotified ==
    (ev.kind = "graceTimer" /\ ev.who \in {"zero", "nonzero", "signal"})
        => notes \cap {"exitedEarlyLog", "exitedEarlyHint"} # {}

Waiting(r) == r.stop = "wait"

\* C8: a stopRecording call leaves its wait at the first of the exit event
\* and the 2000 ms timer, and goes on to post-processing (the flag raised,
\* the file-ready wait begun); once no more triggers arrive no call is left
\* waiting, whether or not its process ever exits.
C8_StopProceeds ==
    /\ [][(ev'.kind = "stopTimer"
              \/ (ev'.kind = "exit" /\ ev'.who = "stopping"))
            => /\ transcribing'
               /\ Count(Waiting)' = Count(Waiting) - 1
               /\ \E r \in Recs' : r.stop = "waitFile"]_vars
    /\ shutdown ~> (Count(Waiting) = 0)

\* C8 witness: the timer has fired for a call whose process still runs
C8_Witness ==
    /\ ev.kind = "stopTimer"
    /\ \E r \in Recs : r.stop = "waitFile" /\ r.st = "running" /\ r.sig

MsgNoUI == "voice requires interactive mode"

\* C9 as written: a toggle by command or shortcut in a context without a UI
\* changes nothing and surfaces "voice requires interactive mode".
C9_RejectedWithMessage ==
    [][(ev'.kind \in Kinds /\ ~ev'.hasUI)
          => (UNCHANGED ext /\ MsgNoUI \in notes')]_vars

\* C9 amended: a toggle or a model selection in a context without a UI
\* changes nothing: no recording is started or stopped, no process spawned,
\* no model preference changed; the command surfaces "voice requires
\* interactive mode", the shortcut returns without a notification.
C9_Rejected ==
    [][(ev'.kind \in Kinds \cup {"modelCommand"} /\ ~ev'.hasUI)
          => /\ UNCHANGED ext
             /\ notes' = IF ev'.kind = "shortcut" THEN {} ELSE {MsgNoUI}]_vars

\* C9 witness: a shortcut without a UI arrived during a recording and
\* neither stopped it nor said anything
C9_Witness ==
    /\ ev.kind = "shortcut" /\ ~ev.hasUI
    /\ notes = {}
    /\ \E r \in recording : r.st = "running"

\* a credential that is absent or made of whitespace only, said without trim
IsBlank(k) == ~k.set \/ \A i \in 1..Len(k.val) : k.val[i] \in WhiteSpace

\* C10: transcribeFile called with a missing, empty or whitespace-only
\* credential fails with "VENICE_API_KEY is not set" before any I/O: the
\* file is not read and the transport is not invoked.
C10_NoCredentialNoIO ==
    (tf.pc # "idle" /\ tf.pc # "start" /\ IsBlank(apiKey(tf)))
        => /\ tf.pc = "threw"
           /\ tf.out = ErrNoKey
           /\ tf.reads = 0
           /\ tf.fetches = 0

\* C10 witness: a whitespace-only parameter overrode a good environment key
\* and the call failed without touching the file
C10_Witness ==
    /\ tf.pc = "threw"
    /\ tf.apiKey.set /\ Len(tf.apiKey.val) = MaxKeyLen
    /\ IsBlank(tf.apiKey) /\ ~IsBlank(tf.envKey)
    /\ tf.fileOk
    /\ tf.reads = 0

\* the response handling as the specification words it
reference(res) ==
    IF ~res.ok
    THEN [pc |-> "threw",
          out |-> <<res.status, " ", res.statusText, ": ", "body">>]
    ELSE IF ~includesJson(res.ctype) \/ res.body.parse = "invalid"
    THEN [pc |-> "returned", out |-> Raw]
    ELSE IF res.body.text = "string"
    THEN [pc |-> "returned", out |-> Field("text")]
    ELSE IF res.body.transcription = "string"
    THEN [pc |-> "returned", out |-> Field("transcription")]
    ELSE [pc |-> "returned", out |-> stringify(res.body)]

\* C11: for every response of the transport the outcome of transcribeFile
\* is the one the reference response handling gives: the formatted error
\* for a non-success status, the string field `text`, else the string field
\* `transcription`, else the re-serialized JSON for a JSON content type, the
\* raw body when it does not parse or the content type is another.
C11_ResponseHandling ==
    (tf.pc \in {"threw", "returned"} /\ tf.res # NoResponse)
        => tf.pc = reference(tf.res).pc /\ tf.out = reference(tf.res).out

\* the file holds the member "model": v, white space apart
Stores(file, v) ==
    LET s == stripWs(file.text)
    IN  \E i \in 1..Len(s) - 2 :
          s[i] = Str("model") /\ s[i + 1] = Colon /\ s[i + 2] = v

Loaded == cf.pc \in {"loaded", "reloaded"}

\* texts that are no JSON, and texts whose model is not a recognized one
Malformed == {<<>>, <<Ws>>, <<LBrace>>, compact(LBrace)}
Unrecognized ==
    {compact(Str("bogus")), compact(Str("")), compact(Num("1")),
     compact(Lit("null")), <<LBrace, RBrace>>, <<Lit("null")>>,
     <<LBrack, RBrack>>}

\* C12: loadConfig returns a model only when the stored value is one of the
\* two recognized identifiers, and then exactly that one; a missing file,
\* unreadable or malformed content or an unrecognized value gives the empty
\* configuration.  (loadConfig has no outcome but a configuration.)
C12_LoadConfig ==
    Loaded =>
      /\ cf.result \in Configs
      /\ cf.result # NoModel
            => /\ cf.result \in MODEL_OPTIONS
               /\ cf.file.kind = "file" /\ cf.file.readable
               /\ Stores(cf.file, Str(cf.result))
      /\ (cf.file.kind # "file" \/ ~cf.file.readable
            \/ cf.file.text \in Malformed \cup Unrecognized)
            => cf.result = NoModel
      /\ \A m \in MODEL_OPTIONS :
            (cf.file.kind = "file" /\ cf.file.readable
               /\ cf.file.text \in {compact(Str(m)), stringify2(m)})
            => cf.result = m

\* C12 witness: a readable file with an unrecognized model was loaded
C12_Witness ==
    /\ cf.pc = "loaded"
    /\ cf.file.kind = "file" /\ cf.file.readable
    /\ cf.file.text = compact(Str("bogus"))
    /\ cf.result = NoModel

\* C13 as written: for each recognized m, saveConfig({model: m}) followed
\* by loadConfig returns the model m.
C13_RoundTrip ==
    (cf.pc = "reloaded" /\ cf.config \in MODEL_OPTIONS)
        => cf.result = cf.config

\* C13 amended: for each recognized m, saveConfig({model: m}) followed by
\* loadConfig returns the model m when the write succeeded and the file can
\* be read back.
C13_RoundTripWhenWritten ==
    (cf.pc = "reloaded" /\ cf.config \in MODEL_OPTIONS
       /\ cf.wrote /\ cf.file.readable)
        => cf.result = cf.config

\* C13 witness: a model was written, pretty-printed, and read back
C13_Witness ==
    /\ cf.pc = "reloaded"
    /\ cf.config = "nvidia/parakeet-tdt-0.6b-v3"
    /\ cf.wrote
    /\ cf.file.text = stringify2(cf.config)
    /\ cf.result = cf.config

\* C14: waitForFile terminates; it returns true only when its last poll
\* found the file with a size above zero; it returns false only when at
\* least timeoutMs have elapsed and no poll succeeded; a poll in which the
\* file system fails counts as not ready and the call goes on; two polls
\* are at least 100 ms apart.
C14_WaitForFile ==
    /\ [](wf.pc \in {"idle", "loop", "sleep", "true", "false"})
    /\ [](wf.pc = "true" => wf.polls > 0 /\ wf.last = "ready")
    /\ [](wf.pc = "false" => /\ wf.elapsed >= wf.timeoutMs
                             /\ wf.last # "ready"
                             /\ wf.timeoutMs > 0 => wf.polls > 0)
    /\ [](wf.pc = "sleep" => wf.last \in {"missing", "empty", "statThrows"})
    /\ [](wf.pc = "loop" /\ wf.polls > 0
             => wf.elapsed - wf.lastAt >= Interval)
    /\ <>(wf.pc \in {"true", "false"})

\* C14 witness: false returned after the timeout, the last of several polls
\* having failed in statSync
C14_Witness ==
    /\ wf.pc = "false"
    /\ wf.timeoutMs = MaxTimeout
    /\ wf.polls > 1
    /\ wf.last = "statThrows"

Transcribing(r) == r.stop = "transcribe"

\* C15: whatever the transcription step throws after a stop (credential
\* missing, audio file unreadable, transport failure, non-success status)
\* is turned into the "Transcription failed" notification and nothing else:
\* the handler's promise is not rejected.
C15_ErrorsCaught ==
    (ev.kind = "transcribeDone" /\ ev.who \in TfErrors)
        => notes = {"transcriptionFailed"}

\* C15 witness: a transport failure ended a transcription
C15_Witness ==
    /\ ev.kind = "transcribeDone" /\ ev.who = "transport"
    /\ notes = {"transcriptionFailed"}
    /\ ~transcribing

\* C16 as written: every file-ready wait that times out is surfaced as an
\* error notification with the hint at the captured log, and no
\* transcription request is issued.  Stated for steps before which every
\* process has started.
C16_TimeoutHinted ==
    [][(ev'.kind = "fileTimeout" /\ AllStarted)
          => /\ {"fileNotCreated", "logHint"} \subseteq notes'
             /\ Count(Transcribing)' = Count(Transcribing)]_vars

\* C16 amended: every file-ready wait that times out is surfaced as the
\* error notification "Recording file was not created", which carries the
\* hint at the log exactly when a log was captured (the log file exists and
\* is not empty); no transcription request is issued.
C16_TimeoutNotified ==
    [][ev'.kind = "fileTimeout"
          => /\ "fileNotCreated" \in notes'
             /\ ("logHint" \in notes') = (ev'.who \in {"blank", "text"})
             /\ Count(Transcribing)' = Count(Transcribing)]_vars

\* C16 witness: the wait timed out for a process that started, still runs
\* and left no log
C16_Witness ==
    /\ ev.kind = "fileTimeout" /\ ev.who = "none"
    /\ \E r \in Recs : r.stop = "done" /\ r.st = "running"
    /\ notes = {"fileNotCreated"}
    /\ Count(Transcribing) = 0

\* C17: every way out of post-processing (the file never ready, the
\* transcription failed, was empty or succeeded) leaves the flag false and
\* the status indicator cleared; the flag is true only while a call is in
\* post-processing, and with waitForFile and transcribeFile returning it
\* does not stay true.
C17_FlagReset ==
    /\ [][ev'.kind \in {"fileTimeout", "transcribeDone"}
            => ~transcribing' /\ status' = ""]_vars
    /\ [](transcribing => \E r \in Recs : InFlight(r))
    /\ transcribing ~> ~transcribing

\* C17 witness: a transcription that failed left the flag false, the status
\* cleared and the state idle
C17_Witness ==
    /\ ev.kind = "transcribeDone" /\ ev.who \in TfErrors
    /\ ~transcribing /\ status = ""
    /\ recording = {}

\* C18: at most one stopRecording call is in post-processing (the file
\* wait or the transcription) at a time, and the flag is true for as long
\* as one is.  Stated for states in which every process has started.
C18_OnePostProcessing ==
    AllStarted =>
      /\ Count(InFlight) <= 1
      /\ (\E r \in Recs : InFlight(r)) => transcribing

\* C19: the exit of a process that is not the active session's (an orphan,
\* or one whose session was stopped) leaves the active session and the
\* status indicator as they are; the session is cleared by the exit of its
\* own process alone.
C19_ExitOwnership ==
    [][ev'.kind = "exit"
          => IF ev'.who = "active"
             THEN recording' = {} /\ status' = ""
             ELSE recording' = recording /\ status' = status]_vars

\* C19 witness: a stopped session's process ended during a newer recording
C19_Witness ==
    /\ ev.kind = "exit" /\ ev.who \in {"stopping", "stopped"}
    /\ \E r \in recording : r.st = "running"
    /\ status = "recording"

\* C20: when the session_shutdown handler has run, every process the
\* extension spawned that still runs has been sent SIGINT, by a stop or by
\* the handler.  Stated for states in which every process has started.
C20_ShutdownSignalsAll ==
    (ev.kind = "shutdown" /\ AllStarted)
        => \A r \in Recs : r.st = "running" => r.sig

====
